---- MODULE Spec2Model ----
(***************************************************************************)
(* Shape aggregation benchmark (cleancode): three dispatch strategies      *)
(* (virtual calls, tagged switch, coefficient table), the columnar         *)
(* collectors and the AVX reduction engine, together with the harness      *)
(* that drives them.                                                       *)
(*                                                                         *)
(* An f32 value is modelled by the real number its computation stands     *)
(* for, (n + p*Pi32)/d with integer n, p and d > 0 in lowest terms (Pi32   *)
(* is kept as a symbol, every other literal of the source as the rational  *)
(* it denotes), and, for non-negative integer values, by the f32 the       *)
(* machine computes, rounded to a 24-bit significand.  Rounding of         *)
(* fractions and of multiples of Pi32 is outside the model.                *)
(***************************************************************************)
EXTENDS Integers, Sequences, FiniteSets, TLC

VARIABLES
    vtbl_shapes,          \* std::vector<shape_base*> of main
    flat_shapes,          \* std::vector<shape_union> of main
    area_collector,       \* AreaCollector: [areas]
    optimized_collector,  \* CornerCollector: [areas, weights]
    main,                 \* the driver's position and locals
    out,                  \* the value each function returned last
    eng,                  \* locals of the running reduction-engine call
    given,                \* shapes passed to each collector's addShape, in order
    ret,                  \* the pointer the last addShape call returned
    reduced               \* per collector: has a reduction call begun on it

vars == <<vtbl_shapes, flat_shapes, area_collector, optimized_collector,
          main, out, eng, given, ret, reduced>>

----------------------------------------------------------------------------
(* f32 values.  A value carries the real number its computation stands  *)
(* for, (n + p*Pi32)/d in lowest terms, and in field f32 what the machine  *)
(* has computed for it, where that is followed: a non-negative integer up  *)
(* to F32Limit, each result of +, * and / being the exact result rounded   *)
(* to a 24-bit significand, ties to even.  Fractions and multiples of Pi32 *)
(* are not followed (Untracked), nor is anything computed from them.       *)

Abs(x) == IF x < 0 THEN -x ELSE x

RECURSIVE Gcd(_, _)
Gcd(a, b) == IF b = 0 THEN a ELSE Gcd(b, a % b)

Untracked == -1

\* 2^24: every integer up to it is an f32
Significand == 16777216

\* 2^30
F32Limit == 1073741824

\* the spacing of the f32 values around x: 1 below 2^24, 2 below 2^25, ...
RECURSIVE Ulp(_, _)
Ulp(x, q) == IF x \div q < Significand THEN q ELSE Ulp(x, 2 * q)

\* the f32 nearest to the integer x in 0..F32Limit, ties to even
Round32(x) ==
    LET q == Ulp(x, 1)
        r == x % q
        b == x - r
    IN  IF 2 * r < q THEN b
        ELSE IF 2 * r > q THEN b + q
        ELSE IF (b \div q) % 2 = 0 THEN b ELSE b + q

\* (n + p*Pi32)/d in lowest terms, d > 0, with the f32 value r
Norm(n, p, d, r) ==
    LET g == Gcd(Gcd(Abs(n), Abs(p)), d)
    IN  [n |-> n \div g, p |-> p \div g, d |-> d \div g, f32 |-> r]

\* the real number alone
Exact(v) == [n |-> v.n, p |-> v.p, d |-> v.d]

F(k) ==
    [n |-> k, p |-> 0, d |-> 1,
     f32 |-> IF k >= 0 /\ k <= F32Limit THEN Round32(k) ELSE Untracked]

Zero == F(0)
One == F(1)
Half == [n |-> 1, p |-> 0, d |-> 2, f32 |-> Untracked]

FAdd(a, b) ==
    Norm(a.n * b.d + b.n * a.d, a.p * b.d + b.p * a.d, a.d * b.d,
         IF a.f32 >= 0 /\ b.f32 >= 0 /\ a.f32 <= F32Limit - b.f32
         THEN Round32(a.f32 + b.f32) ELSE Untracked)

\* the source never multiplies two values that both carry Pi32
FMul(a, b) ==
    CASE a.p = 0 \/ b.p = 0 ->
        Norm(a.n * b.n, a.n * b.p + a.p * b.n, a.d * b.d,
             IF a.f32 >= 0 /\ b.f32 >= 0
                /\ (a.f32 = 0 \/ b.f32 <= F32Limit \div a.f32)
             THEN Round32(a.f32 * b.f32) ELSE Untracked)

\* the source only divides by 1.0f + count
FDiv(a, b) ==
    CASE b.p = 0 /\ b.n > 0 ->
        Norm(a.n * b.d, a.p * b.d, a.d * b.n,
             IF a.f32 >= 0 /\ b.f32 > 0 /\ a.f32 % b.f32 = 0
             THEN Round32(a.f32 \div b.f32) ELSE Untracked)

\* a*b + c rounded once
FFma(a, b, c) ==
    LET exact == FAdd(FMul(a, b), c)
    IN  [exact EXCEPT
           !.f32 = IF a.f32 >= 0 /\ b.f32 >= 0 /\ c.f32 >= 0
                      /\ (a.f32 = 0 \/ b.f32 <= F32Limit \div a.f32)
                      /\ a.f32 * b.f32 <= F32Limit - c.f32
                   THEN Round32(a.f32 * b.f32 + c.f32) ELSE Untracked]

----------------------------------------------------------------------------
(* shapes.h                                                                *)

Pi32 == [n |-> 0, p |-> 1, d |-> 1, f32 |-> Untracked]

Shape_Square == 0
Shape_Rectangle == 1
Shape_Triangle == 2
Shape_Circle == 3
Shape_Count == 4

ValidTypes == {Shape_Square, Shape_Rectangle, Shape_Triangle, Shape_Circle}

\* struct shape_union
shape_union(Type, Width, Height) ==
    [Type |-> Type, Width |-> Width, Height |-> Height]

\* the four classes derived from shape_base, by constructor
square(SideInit) == [class |-> "square", Side |-> SideInit]
rectangle(WidthInit, HeightInit) ==
    [class |-> "rectangle", Width |-> WidthInit, Height |-> HeightInit]
triangle(BaseInit, HeightInit) ==
    [class |-> "triangle", Base |-> BaseInit, Height |-> HeightInit]
circle(RadiusInit) == [class |-> "circle", Radius |-> RadiusInit]

\* virtual f32 Area(), resolved on the dynamic class
Area(shape) ==
    CASE shape.class = "square" -> FMul(shape.Side, shape.Side)
      [] shape.class = "rectangle" -> FMul(shape.Width, shape.Height)
      [] shape.class = "triangle" -> FMul(FMul(Half, shape.Base), shape.Height)
      [] shape.class = "circle" -> FMul(FMul(Pi32, shape.Radius), shape.Radius)
      [] OTHER -> Zero

\* virtual u32 CornerCount(), resolved on the dynamic class
CornerCount(shape) ==
    CASE shape.class = "square" -> 4
      [] shape.class = "rectangle" -> 4
      [] shape.class = "triangle" -> 3
      [] shape.class = "circle" -> 0
      [] OTHER -> 0

----------------------------------------------------------------------------
(* u32 loop counters keep their width: a value is its two 16-bit halves.   *)

Half16 == 65536

U32(k) == [hi |-> (k \div Half16) % Half16, lo |-> k % Half16]

U32IsZero(c) == c.hi = 0 /\ c.lo = 0

\* c - 1 modulo 2^32
U32Dec(c) ==
    IF c.lo > 0 THEN [hi |-> c.hi, lo |-> c.lo - 1]
    ELSE IF c.hi > 0 THEN [hi |-> c.hi - 1, lo |-> Half16 - 1]
    ELSE [hi |-> Half16 - 1, lo |-> Half16 - 1]

\* a loop as the repeated application of its step (the loop test and, when
\* it succeeds, one pass of the body) to the function's locals, until the
\* test fails; at most fuel steps are taken.  The steps are applied one
\* after the other; the split in halves only keeps the evaluation shallow.
RECURSIVE Iterate(_, _, _)
Iterate(Step(_), st, fuel) ==
    IF fuel <= 0 THEN st
    ELSE IF fuel = 1 THEN (IF st.exited THEN st ELSE Step(st))
    ELSE LET mid == Iterate(Step, st, fuel \div 2)
         IN  IF mid.exited THEN mid
             ELSE Iterate(Step, mid, fuel - fuel \div 2)

\* steps enough for every loop over ShapeCount elements to reach its exit
LoopFuel(ShapeCount) == ShapeCount + 2

\* return Accum0 + Accum1 + Accum2 + Accum3
Combine4(Accum) == FAdd(FAdd(FAdd(Accum[1], Accum[2]), Accum[3]), Accum[4])

----------------------------------------------------------------------------
(* clean_code.cpp: dynamic dispatch.  Shapes[k] of the source is           *)
(* Shapes[k + 1] here; base is the distance the Shapes pointer has moved.  *)

\* for (u32 i = 0; i < ShapeCount; ++i) Accum += ...: the test and one pass
TotalAreaVTBL_iter(st) ==
    IF st.i < st.ShapeCount
    THEN [st EXCEPT !.Accum = FAdd(@, Area(st.Shapes[st.i + 1])),
                    !.i = @ + 1]
    ELSE [st EXCEPT !.exited = TRUE]

TotalAreaVTBL(ShapeCount, Shapes) ==
    Iterate(TotalAreaVTBL_iter,
            [ShapeCount |-> ShapeCount, Shapes |-> Shapes, i |-> 0,
             Accum |-> Zero, exited |-> FALSE],
            LoopFuel(ShapeCount)).Accum

\* a loop that stops when one group is still to be summed
TotalAreaVTBL4_iter_StopsEarly(st) ==
    IF ~U32IsZero(st.Count) /\ st.Count # U32(1)
    THEN [st EXCEPT
            !.Count = U32Dec(@),
            !.Accum = <<FAdd(@[1], Area(st.Shapes[st.base + 1])),
                        FAdd(@[2], Area(st.Shapes[st.base + 2])),
                        FAdd(@[3], Area(st.Shapes[st.base + 3])),
                        FAdd(@[4], Area(st.Shapes[st.base + 4]))>>,
            !.base = @ + 4]
    ELSE [st EXCEPT !.Count = U32Dec(@), !.exited = TRUE]

\* while (Count--): the test with its post-decrement, and one pass
TotalAreaVTBL4_iter(st) ==
    IF ~U32IsZero(st.Count)
    THEN [st EXCEPT
            !.Count = U32Dec(@),
            !.Accum = <<FAdd(@[1], Area(st.Shapes[st.base + 1])),
                        FAdd(@[2], Area(st.Shapes[st.base + 2])),
                        FAdd(@[3], Area(st.Shapes[st.base + 3])),
                        FAdd(@[4], Area(st.Shapes[st.base + 4]))>>,
            !.base = @ + 4]
    ELSE [st EXCEPT !.Count = U32Dec(@), !.exited = TRUE]

\* u32 Count = ShapeCount / 4; the loop; the locals when it has ended
TotalAreaVTBL4_run(ShapeCount, Shapes) ==
    Iterate(TotalAreaVTBL4_iter,
            [Count |-> U32(ShapeCount \div 4), Shapes |-> Shapes,
             base |-> 0, Accum |-> <<Zero, Zero, Zero, Zero>>,
             exited |-> FALSE],
            LoopFuel(ShapeCount))

TotalAreaVTBL4(ShapeCount, Shapes) ==
    Combine4(TotalAreaVTBL4_run(ShapeCount, Shapes).Accum)

\* (1.0f / (1.0f + (f32)CornerCount())) * Area()
CornerTermVTBL(shape) ==
    FMul(FDiv(One, FAdd(One, F(CornerCount(shape)))), Area(shape))

\* for (u32 i = 0; i < ShapeCount; ++i) Accum += ...: the test and one pass
CornerAreaVTBL_iter(st) ==
    IF st.i < st.ShapeCount
    THEN [st EXCEPT !.Accum = FAdd(@, CornerTermVTBL(st.Shapes[st.i + 1])),
                    !.i = @ + 1]
    ELSE [st EXCEPT !.exited = TRUE]

CornerAreaVTBL(ShapeCount, Shapes) ==
    Iterate(CornerAreaVTBL_iter,
            [ShapeCount |-> ShapeCount, Shapes |-> Shapes, i |-> 0,
             Accum |-> Zero, exited |-> FALSE],
            LoopFuel(ShapeCount)).Accum

\* while (Count--): the test with its post-decrement, and one pass
CornerAreaVTBL4_iter(st) ==
    IF ~U32IsZero(st.Count)
    THEN [st EXCEPT
            !.Count = U32Dec(@),
            !.Accum = <<FAdd(@[1], CornerTermVTBL(st.Shapes[st.base + 1])),
                        FAdd(@[2], CornerTermVTBL(st.Shapes[st.base + 2])),
                        FAdd(@[3], CornerTermVTBL(st.Shapes[st.base + 3])),
                        FAdd(@[4], CornerTermVTBL(st.Shapes[st.base + 4]))>>,
            !.base = @ + 4]
    ELSE [st EXCEPT !.Count = U32Dec(@), !.exited = TRUE]

\* u32 Count = ShapeCount / 4; the loop; the locals when it has ended
CornerAreaVTBL4_run(ShapeCount, Shapes) ==
    Iterate(CornerAreaVTBL4_iter,
            [Count |-> U32(ShapeCount \div 4), Shapes |-> Shapes,
             base |-> 0, Accum |-> <<Zero, Zero, Zero, Zero>>,
             exited |-> FALSE],
            LoopFuel(ShapeCount))

CornerAreaVTBL4(ShapeCount, Shapes) ==
    Combine4(CornerAreaVTBL4_run(ShapeCount, Shapes).Accum)

----------------------------------------------------------------------------
(* switch_code.cpp: tagged switch                                          *)

\* a switch whose triangle case leaves out the 0.5f
GetAreaSwitch_NoHalf(Shape) ==
    CASE Shape.Type = Shape_Square -> FMul(Shape.Width, Shape.Width)
      [] Shape.Type = Shape_Rectangle -> FMul(Shape.Width, Shape.Height)
      [] Shape.Type = Shape_Triangle -> FMul(Shape.Width, Shape.Height)
      [] Shape.Type = Shape_Circle ->
            FMul(FMul(Pi32, Shape.Width), Shape.Width)
      [] OTHER -> Zero

GetAreaSwitch(Shape) ==
    CASE Shape.Type = Shape_Square -> FMul(Shape.Width, Shape.Width)
      [] Shape.Type = Shape_Rectangle -> FMul(Shape.Width, Shape.Height)
      [] Shape.Type = Shape_Triangle ->
            FMul(FMul(Half, Shape.Width), Shape.Height)
      [] Shape.Type = Shape_Circle ->
            FMul(FMul(Pi32, Shape.Width), Shape.Width)
      [] OTHER -> Zero

GetCornerCountSwitch(Type) ==
    CASE Type = Shape_Square -> 4
      [] Type = Shape_Rectangle -> 4
      [] Type = Shape_Triangle -> 3
      [] Type = Shape_Circle -> 0
      [] OTHER -> 0

\* for (u32 i = 0; i < ShapeCount; ++i) Accum += ...: the test and one pass
TotalAreaSwitch_iter(st) ==
    IF st.i < st.ShapeCount
    THEN [st EXCEPT !.Accum = FAdd(@, GetAreaSwitch(st.Shapes[st.i + 1])),
                    !.i = @ + 1]
    ELSE [st EXCEPT !.exited = TRUE]

TotalAreaSwitch(ShapeCount, Shapes) ==
    Iterate(TotalAreaSwitch_iter,
            [ShapeCount |-> ShapeCount, Shapes |-> Shapes, i |-> 0,
             Accum |-> Zero, exited |-> FALSE],
            LoopFuel(ShapeCount)).Accum

\* a pass that leaves the fourth record of each group out
TotalAreaSwitch4_iter_ThreeOfFour(st) ==
    IF ~U32IsZero(st.ShapeCount)
    THEN [st EXCEPT
            !.ShapeCount = U32Dec(@),
            !.Accum = <<FAdd(@[1], GetAreaSwitch(st.Shapes[st.base + 1])),
                        FAdd(@[2], GetAreaSwitch(st.Shapes[st.base + 2])),
                        FAdd(@[3], GetAreaSwitch(st.Shapes[st.base + 3])),
                        @[4]>>,
            !.base = @ + 4]
    ELSE [st EXCEPT !.ShapeCount = U32Dec(@), !.exited = TRUE]

\* while (ShapeCount--): the test with its post-decrement, and one pass
TotalAreaSwitch4_iter(st) ==
    IF ~U32IsZero(st.ShapeCount)
    THEN [st EXCEPT
            !.ShapeCount = U32Dec(@),
            !.Accum = <<FAdd(@[1], GetAreaSwitch(st.Shapes[st.base + 1])),
                        FAdd(@[2], GetAreaSwitch(st.Shapes[st.base + 2])),
                        FAdd(@[3], GetAreaSwitch(st.Shapes[st.base + 3])),
                        FAdd(@[4], GetAreaSwitch(st.Shapes[st.base + 4]))>>,
            !.base = @ + 4]
    ELSE [st EXCEPT !.ShapeCount = U32Dec(@), !.exited = TRUE]

\* ShapeCount /= 4; the loop; the locals when it has ended
TotalAreaSwitch4_run(ShapeCount, Shapes) ==
    Iterate(TotalAreaSwitch4_iter,
            [ShapeCount |-> U32(ShapeCount \div 4), Shapes |-> Shapes,
             base |-> 0, Accum |-> <<Zero, Zero, Zero, Zero>>,
             exited |-> FALSE],
            LoopFuel(ShapeCount))

TotalAreaSwitch4(ShapeCount, Shapes) ==
    Combine4(TotalAreaSwitch4_run(ShapeCount, Shapes).Accum)

\* (1.0f / (1.0f + (f32)GetCornerCountSwitch(Type))) * GetAreaSwitch(Shape)
CornerTermSwitch(Shape) ==
    FMul(FDiv(One, FAdd(One, F(GetCornerCountSwitch(Shape.Type)))),
         GetAreaSwitch(Shape))

\* for (u32 i = 0; i < ShapeCount; ++i) Accum += ...: the test and one pass
CornerAreaSwitch_iter(st) ==
    IF st.i < st.ShapeCount
    THEN [st EXCEPT !.Accum = FAdd(@, CornerTermSwitch(st.Shapes[st.i + 1])),
                    !.i = @ + 1]
    ELSE [st EXCEPT !.exited = TRUE]

CornerAreaSwitch(ShapeCount, Shapes) ==
    Iterate(CornerAreaSwitch_iter,
            [ShapeCount |-> ShapeCount, Shapes |-> Shapes, i |-> 0,
             Accum |-> Zero, exited |-> FALSE],
            LoopFuel(ShapeCount)).Accum

\* while (ShapeCount--): the test with its post-decrement, and one pass
CornerAreaSwitch4_iter(st) ==
    IF ~U32IsZero(st.ShapeCount)
    THEN [st EXCEPT
            !.ShapeCount = U32Dec(@),
            !.Accum = <<FAdd(@[1], CornerTermSwitch(st.Shapes[st.base + 1])),
                        FAdd(@[2], CornerTermSwitch(st.Shapes[st.base + 2])),
                        FAdd(@[3], CornerTermSwitch(st.Shapes[st.base + 3])),
                        FAdd(@[4], CornerTermSwitch(st.Shapes[st.base + 4]))>>,
            !.base = @ + 4]
    ELSE [st EXCEPT !.ShapeCount = U32Dec(@), !.exited = TRUE]

\* ShapeCount /= 4; the loop; the locals when it has ended
CornerAreaSwitch4_run(ShapeCount, Shapes) ==
    Iterate(CornerAreaSwitch4_iter,
            [ShapeCount |-> U32(ShapeCount \div 4), Shapes |-> Shapes,
             base |-> 0, Accum |-> <<Zero, Zero, Zero, Zero>>,
             exited |-> FALSE],
            LoopFuel(ShapeCount))

CornerAreaSwitch4(ShapeCount, Shapes) ==
    Combine4(CornerAreaSwitch4_run(ShapeCount, Shapes).Accum)

----------------------------------------------------------------------------
(* table_code.cpp: coefficient tables.  Both tables have Shape_Count       *)
(* entries and are indexed by the tag unchecked; a tag past the end reads  *)
(* whatever the build placed behind the table, which is the parameter      *)
(* stray of the readers below.                                             *)

AreaCTable == <<One, One, Half, Pi32>>

\* a table whose triangle entry is folded with four corners
CornerAreaCTable_TriangleFour ==
    <<FDiv(One, FAdd(One, F(4))),
      FDiv(One, FAdd(One, F(4))),
      FDiv(Half, FAdd(One, F(4))),
      Pi32>>

CornerAreaCTable ==
    <<FDiv(One, FAdd(One, F(4))),   \* Square
      FDiv(One, FAdd(One, F(4))),   \* Rectangle
      FDiv(Half, FAdd(One, F(3))),  \* Triangle
      Pi32>>                        \* Circle

\* does table[Type] lie inside a table of Shape_Count entries
InTable(Type) == Type >= 0 /\ Type < Shape_Count

GetAreaUnion(Shape, stray) ==
    FMul(FMul(IF InTable(Shape.Type) THEN AreaCTable[Shape.Type + 1]
              ELSE stray,
              Shape.Width), Shape.Height)

GetCornerAreaUnion(Shape, stray) ==
    FMul(FMul(IF InTable(Shape.Type) THEN CornerAreaCTable[Shape.Type + 1]
              ELSE stray,
              Shape.Width), Shape.Height)

\* for (u32 i = 0; i < ShapeCount; ++i) Accum += ...: the test and one pass
TotalAreaUnion_iter(st) ==
    IF st.i < st.ShapeCount
    THEN [st EXCEPT !.Accum = FAdd(@, GetAreaUnion(st.Shapes[st.i + 1], st.stray)),
                    !.i = @ + 1]
    ELSE [st EXCEPT !.exited = TRUE]

TotalAreaUnion(ShapeCount, Shapes, stray) ==
    Iterate(TotalAreaUnion_iter,
            [ShapeCount |-> ShapeCount, Shapes |-> Shapes, stray |-> stray, i |-> 0,
             Accum |-> Zero, exited |-> FALSE],
            LoopFuel(ShapeCount)).Accum

\* while (ShapeCount--): the test with its post-decrement, and one pass
TotalAreaUnion4_iter(st) ==
    IF ~U32IsZero(st.ShapeCount)
    THEN [st EXCEPT
            !.ShapeCount = U32Dec(@),
            !.Accum = <<FAdd(@[1], GetAreaUnion(st.Shapes[st.base + 1], st.stray)),
                        FAdd(@[2], GetAreaUnion(st.Shapes[st.base + 2], st.stray)),
                        FAdd(@[3], GetAreaUnion(st.Shapes[st.base + 3], st.stray)),
                        FAdd(@[4], GetAreaUnion(st.Shapes[st.base + 4], st.stray))>>,
            !.base = @ + 4]
    ELSE [st EXCEPT !.ShapeCount = U32Dec(@), !.exited = TRUE]

\* ShapeCount /= 4; the loop; the locals when it has ended
TotalAreaUnion4_run(ShapeCount, Shapes, stray) ==
    Iterate(TotalAreaUnion4_iter,
            [ShapeCount |-> U32(ShapeCount \div 4), Shapes |-> Shapes, stray |-> stray,
             base |-> 0, Accum |-> <<Zero, Zero, Zero, Zero>>,
             exited |-> FALSE],
            LoopFuel(ShapeCount))

TotalAreaUnion4(ShapeCount, Shapes, stray) ==
    Combine4(TotalAreaUnion4_run(ShapeCount, Shapes, stray).Accum)

\* for (u32 i = 0; i < ShapeCount; ++i) Accum += ...: the test and one pass
CornerAreaUnion_iter(st) ==
    IF st.i < st.ShapeCount
    THEN [st EXCEPT !.Accum = FAdd(@, GetCornerAreaUnion(st.Shapes[st.i + 1], st.stray)),
                    !.i = @ + 1]
    ELSE [st EXCEPT !.exited = TRUE]

CornerAreaUnion(ShapeCount, Shapes, stray) ==
    Iterate(CornerAreaUnion_iter,
            [ShapeCount |-> ShapeCount, Shapes |-> Shapes, stray |-> stray, i |-> 0,
             Accum |-> Zero, exited |-> FALSE],
            LoopFuel(ShapeCount)).Accum

\* while (ShapeCount--): the test with its post-decrement, and one pass
CornerAreaUnion4_iter(st) ==
    IF ~U32IsZero(st.ShapeCount)
    THEN [st EXCEPT
            !.ShapeCount = U32Dec(@),
            !.Accum = <<FAdd(@[1], GetCornerAreaUnion(st.Shapes[st.base + 1], st.stray)),
                        FAdd(@[2], GetCornerAreaUnion(st.Shapes[st.base + 2], st.stray)),
                        FAdd(@[3], GetCornerAreaUnion(st.Shapes[st.base + 3], st.stray)),
                        FAdd(@[4], GetCornerAreaUnion(st.Shapes[st.base + 4], st.stray))>>,
            !.base = @ + 4]
    ELSE [st EXCEPT !.ShapeCount = U32Dec(@), !.exited = TRUE]

\* ShapeCount /= 4; the loop; the locals when it has ended
CornerAreaUnion4_run(ShapeCount, Shapes, stray) ==
    Iterate(CornerAreaUnion4_iter,
            [ShapeCount |-> U32(ShapeCount \div 4), Shapes |-> Shapes, stray |-> stray,
             base |-> 0, Accum |-> <<Zero, Zero, Zero, Zero>>,
             exited |-> FALSE],
            LoopFuel(ShapeCount))

CornerAreaUnion4(ShapeCount, Shapes, stray) ==
    Combine4(CornerAreaUnion4_run(ShapeCount, Shapes, stray).Accum)

----------------------------------------------------------------------------
(* shapes.h: the collectors.  addShape yields the collector after the call *)
(* and the pointer it returns.                                             *)

AreaCollector == [areas |-> <<>>]

\* an addShape that stores the new area in front of the others
AreaCollector_addShape_Front(collector, shape) ==
    [collector |-> [areas |-> <<Area(shape)>> \o collector.areas],
     ret |-> shape]

AreaCollector_addShape(collector, shape) ==
    [collector |-> [areas |-> Append(collector.areas, Area(shape))],
     ret |-> shape]

CornerCollector == [areas |-> <<>>, weights |-> <<>>]

\* an addShape whose weight is 1 / (2 + corner_count)
CornerCollector_addShape_TwoPlus(collector, shape) ==
    LET area == Area(shape)
        corner_count == CornerCount(shape)
        weight == FDiv(One, FAdd(F(2), F(corner_count)))
    IN  [collector |-> [areas |-> Append(collector.areas, area),
                        weights |-> Append(collector.weights, weight)],
         ret |-> shape]

\* an addShape that stores no weight for a shape without corners
CornerCollector_addShape_NoWeight(collector, shape) ==
    LET area == Area(shape)
        corner_count == CornerCount(shape)
        weight == FDiv(One, FAdd(One, F(corner_count)))
    IN  [collector |->
            [areas |-> Append(collector.areas, area),
             weights |-> IF corner_count = 0 THEN collector.weights
                         ELSE Append(collector.weights, weight)],
         ret |-> shape]

CornerCollector_addShape(collector, shape) ==
    LET area == Area(shape)
        corner_count == CornerCount(shape)
        weight == FDiv(One, FAdd(One, F(corner_count)))
    IN  [collector |-> [areas |-> Append(collector.areas, area),
                        weights |-> Append(collector.weights, weight)],
         ret |-> shape]

----------------------------------------------------------------------------
(* optimized_clean_code.cpp: the reduction engine.  A __m256 is a tuple of *)
(* LaneWidth values; sum is the tuple sum0 .. sum7.  The index i and the   *)
(* element indices are those of the source (from 0).  Prefetches are hints *)
(* and change nothing.                                                     *)

LaneWidth == 8
NumSums == 8
BatchSize == 64

Lanes == 1..LaneWidth

\* areas[idx] of a vector's data(): past the end it is whatever lies there
Load(arr, idx, stray) ==
    IF idx >= 0 /\ idx < Len(arr) THEN arr[idx + 1] ELSE stray

_mm256_setzero_ps == [l \in Lanes |-> Zero]

_mm256_loadu_ps(arr, idx, stray) ==
    [l \in Lanes |-> Load(arr, idx + l - 1, stray)]

_mm256_add_ps(a, b) == [l \in Lanes |-> FAdd(a[l], b[l])]

\* a * b + c
_mm256_fmadd_ps(a, b, c) == [l \in Lanes |-> FFma(a[l], b[l], c[l])]

\* the indices one 8-wide load at idx reads
LoadIndices(idx) == [l \in Lanes |-> idx + l - 1]

RECURSIVE Flatten(_)
Flatten(ss) == IF ss = <<>> THEN <<>> ELSE Head(ss) \o Flatten(Tail(ss))

EngIdle ==
    [fn |-> "none", pc |-> "idle", size |-> 0, i |-> 0,
     sum |-> [k \in 1..NumSums |-> _mm256_setzero_ps],
     Accum |-> Zero, loads |-> <<>>, wloads |-> <<>>,
     iters |-> [bulk |-> 0, rem |-> 0, tail |-> 0]]

\* an entry that keeps the accumulators of the call before
EngEnter_StaleSums(fn, size) ==
    [EngIdle EXCEPT !.fn = fn, !.pc = "bulk", !.size = size, !.sum = eng.sum]

\* lines 9-23 / 87-102: size, data pointers, zeroed accumulators, i = 0
EngEnter(fn, size) ==
    [EngIdle EXCEPT !.fn = fn, !.pc = "bulk", !.size = size]

EngAreas(e) ==
    IF e.fn = "TotalAreaCollector" THEN area_collector.areas
    ELSE optimized_collector.areas

EngWeights(e) == optimized_collector.weights

\* a bulk loop that needs one element more than a batch
BulkGuard_OneMore(e) == e.i + BatchSize < e.size

\* for (; i + 63 < size; i += 64)
BulkGuard(e) == e.i + (BatchSize - 1) < e.size

\* one pass of the bulk loop: accumulator k takes the chunk at i + 8*(k-1)
BulkBody(e, areas, weights, stray) ==
    [e EXCEPT
       !.sum = [k \in 1..NumSums |->
                  IF e.fn = "TotalAreaCollector"
                  THEN _mm256_add_ps(e.sum[k],
                         _mm256_loadu_ps(areas, e.i + LaneWidth * (k - 1),
                                         stray))
                  ELSE _mm256_fmadd_ps(
                         _mm256_loadu_ps(areas, e.i + LaneWidth * (k - 1),
                                         stray),
                         _mm256_loadu_ps(weights, e.i + LaneWidth * (k - 1),
                                         stray),
                         e.sum[k])],
       !.loads = @ \o Flatten([k \in 1..NumSums |->
                                 LoadIndices(e.i + LaneWidth * (k - 1))]),
       !.wloads = IF e.fn = "TotalAreaCollector" THEN @
                  ELSE @ \o Flatten([k \in 1..NumSums |->
                                       LoadIndices(e.i + LaneWidth * (k - 1))]),
       !.i = @ + BatchSize,
       !.iters.bulk = @ + 1]

\* a combine that leaves sum7 out
Combine8to4_DropsSum7(sum) ==
    [sum EXCEPT ![1] = _mm256_add_ps(sum[1], sum[5]),
                ![2] = _mm256_add_ps(sum[2], sum[6]),
                ![3] = _mm256_add_ps(sum[3], sum[7])]

\* a combine of neighbours: sum0+sum1, sum2+sum3, sum4+sum5, sum6+sum7
Combine8to4_Adjacent(sum) ==
    [sum EXCEPT ![1] = _mm256_add_ps(sum[1], sum[2]),
                ![2] = _mm256_add_ps(sum[3], sum[4]),
                ![3] = _mm256_add_ps(sum[5], sum[6]),
                ![4] = _mm256_add_ps(sum[7], sum[8])]

\* Combine the 8 accumulators into 4
Combine8to4(sum) ==
    [sum EXCEPT ![1] = _mm256_add_ps(sum[1], sum[5]),
                ![2] = _mm256_add_ps(sum[2], sum[6]),
                ![3] = _mm256_add_ps(sum[3], sum[7]),
                ![4] = _mm256_add_ps(sum[4], sum[8])]

\* Combine the 4 accumulators into 2
Combine4to2(sum) ==
    [sum EXCEPT ![1] = _mm256_add_ps(sum[1], sum[2]),
                ![3] = _mm256_add_ps(sum[3], sum[4])]

\* Combine the 2 accumulators into 1
Combine2to1(sum) ==
    [sum EXCEPT ![1] = _mm256_add_ps(sum[1], sum[3])]

\* an 8-element loop that runs while any element is left
RemainderGuard_AnyLeft(e) == e.i < e.size

\* for (; i + 7 < size; i += 8)
RemainderGuard(e) == e.i + (LaneWidth - 1) < e.size

RemainderBody(e, areas, weights, stray) ==
    [e EXCEPT
       !.sum[1] = IF e.fn = "TotalAreaCollector"
                  THEN _mm256_add_ps(@, _mm256_loadu_ps(areas, e.i, stray))
                  ELSE _mm256_fmadd_ps(_mm256_loadu_ps(areas, e.i, stray),
                                       _mm256_loadu_ps(weights, e.i, stray),
                                       @),
       !.loads = @ \o LoadIndices(e.i),
       !.wloads = IF e.fn = "TotalAreaCollector" THEN @
                  ELSE @ \o LoadIndices(e.i),
       !.i = @ + LaneWidth,
       !.iters.rem = @ + 1]

\* extractf128 / castps256_ps128 / add_ps, two hadd_ps, cvtss_f32
HorizontalSum(sum0) ==
    LET high128 == <<sum0[5], sum0[6], sum0[7], sum0[8]>>
        low128 == <<sum0[1], sum0[2], sum0[3], sum0[4]>>
        sum128 == [l \in 1..4 |-> FAdd(high128[l], low128[l])]
        hadd(a, b) == <<FAdd(a[1], a[2]), FAdd(a[3], a[4]),
                        FAdd(b[1], b[2]), FAdd(b[3], b[4])>>
        h1 == hadd(sum128, sum128)
        h2 == hadd(h1, h1)
    IN  h2[1]

\* for (; i < size; ++i)
TailGuard(e) == e.i < e.size

TailBody(e, areas, weights, stray) ==
    [e EXCEPT
       !.Accum = IF e.fn = "TotalAreaCollector"
                 THEN FAdd(@, Load(areas, e.i, stray))
                 ELSE FAdd(@, FMul(Load(areas, e.i, stray),
                                   Load(weights, e.i, stray))),
       !.loads = Append(@, e.i),
       !.wloads = IF e.fn = "TotalAreaCollector" THEN @ ELSE Append(@, e.i),
       !.i = @ + 1,
       !.iters.tail = @ + 1]

----------------------------------------------------------------------------
(* bench.cpp: main.  The source fixes N = 1000000 shapes of one pattern    *)
(* and COUNT = 100 calls per function; here the count is any N up to MaxN, *)
(* the input any pattern of Patterns (the source's is "bench"), and each   *)
(* function is called COUNT times.                                         *)

MaxN == 137
COUNT == 2

Patterns == {"bench", "unit", "ramp"}


\* what lies behind a table or an array when it is read past its end
StrayValues == {Zero, One}

\* the i-th shape of the input: the object and the flat record main pushes
Gen(pattern, i) ==
    LET w == CASE pattern = "bench" -> F(3)
               [] pattern = "unit" -> F(1)
               [] pattern = "ramp" -> F(i + 1)
               [] pattern = "big" -> IF i = 0 THEN F(4096) ELSE F(1)
        h == CASE pattern = "bench" -> F(4)
               [] pattern = "unit" -> F(1)
               [] pattern = "ramp" -> F(1 + (i % 3))
               [] pattern = "big" -> w
        t == IF pattern \in {"unit", "big"} THEN 0 ELSE i % 4
    IN  CASE t = 0 -> [obj |-> square(w),
                       flat |-> shape_union(Shape_Square, w, w)]
          [] t = 1 -> [obj |-> rectangle(w, h),
                       flat |-> shape_union(Shape_Rectangle, w, h)]
          [] t = 2 -> [obj |-> triangle(w, h),
                       flat |-> shape_union(Shape_Triangle, w, h)]
          [] t = 3 -> [obj |-> circle(w),
                       flat |-> shape_union(Shape_Circle, w, w)]

\* the calls of main after the population loop, in order
BenchOrder ==
    <<"TotalAreaVTBL", "TotalAreaVTBL4", "CornerAreaVTBL", "CornerAreaVTBL4",
      "TotalAreaCollector", "CornerAreaCollector",
      "TotalAreaSwitch", "TotalAreaSwitch4", "CornerAreaSwitch",
      "CornerAreaSwitch4",
      "TotalAreaUnion", "TotalAreaUnion4", "CornerAreaUnion",
      "CornerAreaUnion4">>

\* functions applied to a single shape
ShapeFunctions ==
    {"GetAreaSwitch", "GetCornerCountSwitch", "GetAreaUnion",
     "GetCornerAreaUnion", "Area", "CornerCount"}

Functions == {BenchOrder[k] : k \in DOMAIN BenchOrder} \cup ShapeFunctions

\* out[f] is <<>> until f has returned, then <<the value returned>>
NoOutput == [f \in Functions |-> <<>>]

Returned(f) == out[f] # <<>>
Val(f) == out[f][1]

MainInit(N, pattern) ==
    [pc |-> "populate", N |-> N, pattern |-> pattern, i |-> 0,
     bench |-> 1, run |-> 0]

Init ==
    /\ vtbl_shapes = <<>>
    /\ flat_shapes = <<>>
    /\ area_collector = AreaCollector
    /\ optimized_collector = CornerCollector
    /\ \E N \in 0..MaxN, pattern \in Patterns : main = MainInit(N, pattern)
    /\ out = NoOutput
    /\ eng = EngIdle
    /\ given = [area |-> <<>>, corner |-> <<>>]
    /\ ret = <<>>
    /\ reduced = [area |-> FALSE, corner |-> FALSE]

\* a population loop that can take one more pass after the benchmarks began
PopulateGuard_Late == main.pc \in {"populate", "bench"} /\ main.i <= main.N

\* for (u32 i = 0; i < N; ++i) of the population loop
PopulateGuard == main.pc = "populate" /\ main.i < main.N

\* what one pass of the population loop (lines 134-155) makes of main's
\* collections c
PopulatePass(c, pattern, i) ==
    LET g == Gen(pattern, i)
        a == AreaCollector_addShape(c.area_collector, g.obj)
        o == CornerCollector_addShape(c.optimized_collector, g.obj)
    IN  [vtbl_shapes |-> Append(c.vtbl_shapes, g.obj),
         flat_shapes |-> Append(c.flat_shapes, g.flat),
         area_collector |-> a.collector,
         optimized_collector |-> o.collector,
         given |-> [area |-> Append(c.given.area, g.obj),
                    corner |-> Append(c.given.corner, g.obj)],
         ret |-> <<o.ret>>]

\* one pass of the population loop
Populate ==
    /\ PopulateGuard
    /\ LET c == PopulatePass(
                    [vtbl_shapes |-> vtbl_shapes, flat_shapes |-> flat_shapes,
                     area_collector |-> area_collector,
                     optimized_collector |-> optimized_collector,
                     given |-> given, ret |-> ret],
                    main.pattern, main.i)
       IN  /\ vtbl_shapes' = c.vtbl_shapes
           /\ flat_shapes' = c.flat_shapes
           /\ area_collector' = c.area_collector
           /\ optimized_collector' = c.optimized_collector
           /\ given' = c.given
           /\ ret' = c.ret
    /\ main' = [main EXCEPT !.i = @ + 1]
    /\ UNCHANGED <<out, eng, reduced>>

\* the loop ends; main takes the data() pointers and starts the benchmarks
PopulateDone ==
    /\ main.pc = "populate" /\ ~(main.i < main.N)
    /\ main' = [main EXCEPT !.pc = "bench"]
    /\ UNCHANGED <<vtbl_shapes, flat_shapes, area_collector,
                   optimized_collector, out, eng, given, ret, reduced>>

\* bench(): for (u32 i = 0; i < COUNT; ++i) result = func(...), then the
\* next benchmark of main, then the cleanup
AfterCall(m) ==
    IF m.run + 1 < COUNT THEN [m EXCEPT !.run = @ + 1]
    ELSE IF m.bench < Len(BenchOrder)
         THEN [m EXCEPT !.run = 0, !.bench = @ + 1]
         ELSE [m EXCEPT !.run = 0, !.pc = "done"]

AtBench(f) ==
    main.pc = "bench" /\ BenchOrder[main.bench] = f /\ eng.pc \in {"idle", "done"}

\* one call of a dispatch-strategy function from bench()
Call(f, value) ==
    /\ AtBench(f)
    /\ out' = [out EXCEPT ![f] = <<value>>]
    /\ main' = AfterCall(main)
    /\ UNCHANGED <<vtbl_shapes, flat_shapes, area_collector,
                   optimized_collector, eng, given, ret, reduced>>

vtbl_area == Call("TotalAreaVTBL", TotalAreaVTBL(main.N, vtbl_shapes))
vtbl_area4 == Call("TotalAreaVTBL4", TotalAreaVTBL4(main.N, vtbl_shapes))
vtbl_corner == Call("CornerAreaVTBL", CornerAreaVTBL(main.N, vtbl_shapes))
vtbl_corner4 == Call("CornerAreaVTBL4", CornerAreaVTBL4(main.N, vtbl_shapes))

switch_area == Call("TotalAreaSwitch", TotalAreaSwitch(main.N, flat_shapes))
switch_area4 == Call("TotalAreaSwitch4", TotalAreaSwitch4(main.N, flat_shapes))
switch_corner ==
    Call("CornerAreaSwitch", CornerAreaSwitch(main.N, flat_shapes))
switch_corner4 ==
    Call("CornerAreaSwitch4", CornerAreaSwitch4(main.N, flat_shapes))

table_area ==
    \E stray \in StrayValues :
        Call("TotalAreaUnion", TotalAreaUnion(main.N, flat_shapes, stray))
table_area4 ==
    \E stray \in StrayValues :
        Call("TotalAreaUnion4", TotalAreaUnion4(main.N, flat_shapes, stray))
table_corner ==
    \E stray \in StrayValues :
        Call("CornerAreaUnion", CornerAreaUnion(main.N, flat_shapes, stray))
table_corner4 ==
    \E stray \in StrayValues :
        Call("CornerAreaUnion4", CornerAreaUnion4(main.N, flat_shapes, stray))

\* the engine's steps leave everything but its locals alone
EngFrame ==
    UNCHANGED <<vtbl_shapes, flat_shapes, area_collector,
                optimized_collector, main, out, given, ret, reduced>>

\* bench_total_collector / bench_optimized_corner_collector enter the engine
EngCallTotal ==
    /\ AtBench("TotalAreaCollector")
    /\ eng' = EngEnter("TotalAreaCollector", Len(area_collector.areas))
    /\ reduced' = [reduced EXCEPT !.area = TRUE]
    /\ UNCHANGED <<vtbl_shapes, flat_shapes, area_collector,
                   optimized_collector, main, out, given, ret>>

EngCallCorner ==
    /\ AtBench("CornerAreaCollector")
    /\ eng' = EngEnter("CornerAreaCollector", Len(optimized_collector.areas))
    /\ reduced' = [reduced EXCEPT !.corner = TRUE]
    /\ UNCHANGED <<vtbl_shapes, flat_shapes, area_collector,
                   optimized_collector, main, out, given, ret>>

EngBulk ==
    /\ eng.pc = "bulk" /\ BulkGuard(eng)
    /\ \E stray \in StrayValues :
           eng' = BulkBody(eng, EngAreas(eng), EngWeights(eng), stray)
    /\ EngFrame

EngCombine8 ==
    /\ eng.pc = "bulk" /\ ~BulkGuard(eng)
    /\ eng' = [eng EXCEPT !.sum = Combine8to4(@), !.pc = "combine4"]
    /\ EngFrame

EngCombine4 ==
    /\ eng.pc = "combine4"
    /\ eng' = [eng EXCEPT !.sum = Combine4to2(@), !.pc = "combine2"]
    /\ EngFrame

EngCombine2 ==
    /\ eng.pc = "combine2"
    /\ eng' = [eng EXCEPT !.sum = Combine2to1(@), !.pc = "remainder"]
    /\ EngFrame

EngRemainder ==
    /\ eng.pc = "remainder" /\ RemainderGuard(eng)
    /\ \E stray \in StrayValues :
           eng' = RemainderBody(eng, EngAreas(eng), EngWeights(eng), stray)
    /\ EngFrame

EngHorizontal ==
    /\ eng.pc = "remainder" /\ ~RemainderGuard(eng)
    /\ eng' = [eng EXCEPT !.Accum = HorizontalSum(eng.sum[1]), !.pc = "tail"]
    /\ EngFrame

EngTail ==
    /\ eng.pc = "tail" /\ TailGuard(eng)
    /\ \E stray \in StrayValues :
           eng' = TailBody(eng, EngAreas(eng), EngWeights(eng), stray)
    /\ EngFrame

\* return Accum, back in bench()
EngReturn ==
    /\ eng.pc = "tail" /\ ~TailGuard(eng)
    /\ eng' = [eng EXCEPT !.pc = "done"]
    /\ out' = [out EXCEPT ![eng.fn] = <<eng.Accum>>]
    /\ main' = AfterCall(main)
    /\ UNCHANGED <<vtbl_shapes, flat_shapes, area_collector,
                   optimized_collector, given, ret, reduced>>

Engine ==
    \/ EngBulk \/ EngCombine8 \/ EngCombine4 \/ EngCombine2
    \/ EngRemainder \/ EngHorizontal \/ EngTail \/ EngReturn

Next ==
    \/ Populate \/ PopulateDone
    \/ vtbl_area \/ vtbl_area4 \/ vtbl_corner \/ vtbl_corner4
    \/ EngCallTotal \/ EngCallCorner \/ Engine
    \/ switch_area \/ switch_area4 \/ switch_corner \/ switch_corner4
    \/ table_area \/ table_area4 \/ table_corner \/ table_corner4

Spec == Init /\ [][Next]_vars

----------------------------------------------------------------------------
(* The benchmarks alone: main from the end of its population loop, over    *)
(* the collections the loop has built, for every run of Spec and for one   *)
(* long run besides: a square of side 4096, then unit squares.             *)

BigN == 1729

\* the test of the population loop and one pass
Populate_iter(st) ==
    IF st.i < st.N
    THEN [st EXCEPT !.c = PopulatePass(@, st.pattern, st.i), !.i = @ + 1]
    ELSE [st EXCEPT !.exited = TRUE]

\* main's collections when the population loop has ended
Populated(N, pattern) ==
    Iterate(Populate_iter,
            [N |-> N, pattern |-> pattern, i |-> 0,
             c |-> [vtbl_shapes |-> <<>>, flat_shapes |-> <<>>,
                    area_collector |-> AreaCollector,
                    optimized_collector |-> CornerCollector,
                    given |-> [area |-> <<>>, corner |-> <<>>],
                    ret |-> <<>>],
             exited |-> FALSE],
            LoopFuel(N)).c

InitBench ==
    \E input \in ((0..MaxN) \X Patterns) \cup {<<BigN, "big">>} :
        LET c == Populated(input[1], input[2])
        IN  /\ vtbl_shapes = c.vtbl_shapes
            /\ flat_shapes = c.flat_shapes
            /\ area_collector = c.area_collector
            /\ optimized_collector = c.optimized_collector
            /\ given = c.given
            /\ ret = c.ret
            /\ main = [MainInit(input[1], input[2]) EXCEPT
                         !.pc = "bench", !.i = input[1]]
            /\ out = NoOutput
            /\ eng = EngIdle
            /\ reduced = [area |-> FALSE, corner |-> FALSE]

NextBench ==
    \/ vtbl_area \/ vtbl_area4 \/ vtbl_corner \/ vtbl_corner4
    \/ EngCallTotal \/ EngCallCorner \/ Engine
    \/ switch_area \/ switch_area4 \/ switch_corner \/ switch_corner4
    \/ table_area \/ table_area4 \/ table_corner \/ table_corner4

SpecBench == InitBench /\ [][NextBench]_vars

----------------------------------------------------------------------------
(* The functions of one shape, applied to any flat record (any tag up to   *)
(* MaxType, any parameters up to MaxParam) and to the object main would    *)
(* build from the same parameters.                                         *)

MaxType == 5
MaxParam == 2

\* the object main builds beside a flat record (lines 137-151)
ObjectOf(Shape) ==
    CASE Shape.Type = Shape_Square -> square(Shape.Width)
      [] Shape.Type = Shape_Rectangle -> rectangle(Shape.Width, Shape.Height)
      [] Shape.Type = Shape_Triangle -> triangle(Shape.Width, Shape.Height)
      [] Shape.Type = Shape_Circle -> circle(Shape.Width)

InitShape ==
    /\ \E t \in 0..MaxType, w \in 0..MaxParam, h \in 0..MaxParam :
          LET Shape == shape_union(t, F(w), F(h))
          IN  /\ flat_shapes = <<Shape>>
              /\ vtbl_shapes = IF t \in ValidTypes THEN <<ObjectOf(Shape)>>
                               ELSE <<>>
    /\ area_collector = AreaCollector
    /\ optimized_collector = CornerCollector
    /\ main = [MainInit(1, "shape") EXCEPT !.pc = "shape"]
    /\ out = NoOutput
    /\ eng = EngIdle
    /\ given = [area |-> <<>>, corner |-> <<>>]
    /\ ret = <<>>
    /\ reduced = [area |-> FALSE, corner |-> FALSE]

\* one call of f on the shape, f not called before
Apply(f, value) ==
    /\ main.pc = "shape"
    /\ ~Returned(f)
    /\ out' = [out EXCEPT ![f] = <<value>>]
    /\ UNCHANGED <<vtbl_shapes, flat_shapes, area_collector,
                   optimized_collector, main, eng, given, ret, reduced>>

ApplyGetAreaSwitch == Apply("GetAreaSwitch", GetAreaSwitch(flat_shapes[1]))
ApplyGetCornerCountSwitch ==
    Apply("GetCornerCountSwitch", GetCornerCountSwitch(flat_shapes[1].Type))
ApplyGetAreaUnion ==
    \E stray \in StrayValues :
        Apply("GetAreaUnion", GetAreaUnion(flat_shapes[1], stray))
ApplyArea == vtbl_shapes # <<>> /\ Apply("Area", Area(vtbl_shapes[1]))
ApplyCornerCount ==
    vtbl_shapes # <<>> /\ Apply("CornerCount", CornerCount(vtbl_shapes[1]))
ApplyCornerAreaVTBL ==
    /\ vtbl_shapes # <<>>
    /\ Apply("CornerAreaVTBL", CornerAreaVTBL(1, vtbl_shapes))
ApplyTotalAreaSwitch ==
    Apply("TotalAreaSwitch", TotalAreaSwitch(1, flat_shapes))
ApplyCornerAreaSwitch ==
    Apply("CornerAreaSwitch", CornerAreaSwitch(1, flat_shapes))
ApplyTotalAreaUnion ==
    \E stray \in StrayValues :
        Apply("TotalAreaUnion", TotalAreaUnion(1, flat_shapes, stray))
ApplyCornerAreaUnion ==
    \E stray \in StrayValues :
        Apply("CornerAreaUnion", CornerAreaUnion(1, flat_shapes, stray))

NextShape ==
    \/ ApplyGetAreaSwitch \/ ApplyGetCornerCountSwitch \/ ApplyGetAreaUnion
    \/ ApplyArea \/ ApplyCornerCount \/ ApplyCornerAreaVTBL
    \/ ApplyTotalAreaSwitch \/ ApplyCornerAreaSwitch
    \/ ApplyTotalAreaUnion \/ ApplyCornerAreaUnion

SpecShape == InitShape /\ [][NextShape]_vars

----------------------------------------------------------------------------
(* The collectors under any sequence of addShape calls, up to MaxAdd calls *)
(* on each, with shapes of Palette.                                        *)

MaxAdd == 3

Palette == {square(F(2)), triangle(F(3), F(4)), circle(F(1))}

InitCollect ==
    /\ vtbl_shapes = <<>>
    /\ flat_shapes = <<>>
    /\ area_collector = AreaCollector
    /\ optimized_collector = CornerCollector
    /\ main = [MainInit(0, "collect") EXCEPT !.pc = "collect"]
    /\ out = NoOutput
    /\ eng = EngIdle
    /\ given = [area |-> <<>>, corner |-> <<>>]
    /\ ret = <<>>
    /\ reduced = [area |-> FALSE, corner |-> FALSE]

AddShapeArea ==
    /\ main.pc = "collect"
    /\ Len(given.area) < MaxAdd
    /\ \E shape \in Palette :
          LET r == AreaCollector_addShape(area_collector, shape)
          IN  /\ area_collector' = r.collector
              /\ ret' = <<r.ret>>
              /\ given' = [given EXCEPT !.area = Append(@, shape)]
    /\ UNCHANGED <<vtbl_shapes, flat_shapes, optimized_collector, main, out,
                   eng, reduced>>

AddShapeCorner ==
    /\ main.pc = "collect"
    /\ Len(given.corner) < MaxAdd
    /\ \E shape \in Palette :
          LET r == CornerCollector_addShape(optimized_collector, shape)
          IN  /\ optimized_collector' = r.collector
              /\ ret' = <<r.ret>>
              /\ given' = [given EXCEPT !.corner = Append(@, shape)]
    /\ UNCHANGED <<vtbl_shapes, flat_shapes, area_collector, main, out,
                   eng, reduced>>

NextCollect == AddShapeArea \/ AddShapeCorner

SpecCollect == InitCollect /\ [][NextCollect]_vars

----------------------------------------------------------------------------
(* Reference values: plain sums over a whole sequence.                     *)

\* the sum of xs[lo..hi]
RECURSIVE SumRange(_, _, _)
SumRange(xs, lo, hi) ==
    IF lo > hi THEN Zero
    ELSE IF lo = hi THEN xs[lo]
    ELSE LET mid == (lo + hi) \div 2
         IN  FAdd(SumRange(xs, lo, mid), SumRange(xs, mid + 1, hi))

SumOf(xs) == SumRange(xs, 1, Len(xs))

DotOf(xs, ws) == SumOf([k \in 1..Len(xs) |-> FMul(xs[k], ws[k])])

\* how often the engine has loaded element idx of an array
TimesLoaded(loads, idx) == Cardinality({k \in DOMAIN loads : loads[k] = idx})

EngineReturned == eng.pc = "done"

----------------------------------------------------------------------------
(* C1: when a reduction call returns, it has loaded every index 0..N-1     *)
(* exactly once and no other index, the weights at the same indices as the *)
(* areas; TotalAreaCollector returns the sum of areas[i],                  *)
(* CornerAreaCollector the sum of areas[i]*weights[i]; 65 elements of 1.0  *)
(* give 65.0 and an empty array gives 0.0.                                 *)
C1_ReductionCoversEveryIndexOnce ==
    EngineReturned =>
        /\ \A k \in DOMAIN eng.loads : eng.loads[k] \in 0..(eng.size - 1)
        /\ \A idx \in 0..(eng.size - 1) : TimesLoaded(eng.loads, idx) = 1
        /\ Val(eng.fn) = eng.Accum
        /\ eng.fn = "TotalAreaCollector" =>
              /\ eng.size = Len(area_collector.areas)
              /\ eng.wloads = <<>>
              /\ Exact(eng.Accum) = Exact(SumOf(area_collector.areas))
              /\ (eng.size = 65 /\ \A k \in 1..65 : area_collector.areas[k] = One)
                    => eng.Accum = F(65)
        /\ eng.fn = "CornerAreaCollector" =>
              /\ eng.size = Len(optimized_collector.areas)
              /\ eng.wloads = eng.loads
              /\ Exact(eng.Accum)
                    = Exact(DotOf(optimized_collector.areas,
                                  optimized_collector.weights))
        /\ eng.size = 0 => eng.Accum = Zero

\* a call over 137 varied elements has gone through two batches, one
\* 8-element chunk and a scalar tail
C1_Witness ==
    /\ EngineReturned
    /\ eng.fn = "CornerAreaCollector"
    /\ main.pattern = "ramp"
    /\ eng.size = 137
    /\ eng.iters = [bulk |-> 2, rem |-> 1, tail |-> 1]
    /\ eng.Accum # Zero

\* 65 elements of 1.0 summed to 65.0
C1_Witness65 ==
    /\ EngineReturned
    /\ eng.fn = "TotalAreaCollector"
    /\ main.pattern = "unit"
    /\ eng.size = 65
    /\ eng.Accum = F(65)

----------------------------------------------------------------------------
(* C9: the bulk loop runs floor(N/64) times, the remainder loop            *)
(* floor((N mod 64)/8) times and the tail loop N mod 8 times; for N = 64   *)
(* that is once, never, never, and 64 elements of 1.0 give 64.0.           *)
C9_LoopIterationCounts ==
    EngineReturned =>
        /\ eng.iters.bulk = eng.size \div 64
        /\ eng.iters.rem = (eng.size % 64) \div 8
        /\ eng.iters.tail = eng.size % 8
        /\ eng.size = 64 => eng.iters = [bulk |-> 1, rem |-> 0, tail |-> 0]
        /\ (eng.size = 64 /\ eng.fn = "TotalAreaCollector"
              /\ \A k \in 1..64 : area_collector.areas[k] = One)
              => eng.Accum = F(64)

C9_Witness ==
    /\ EngineReturned
    /\ eng.fn = "TotalAreaCollector"
    /\ main.pattern = "unit"
    /\ eng.size = 64
    /\ eng.iters = [bulk |-> 1, rem |-> 0, tail |-> 0]
    /\ eng.Accum = F(64)

----------------------------------------------------------------------------
(* C2: in each strategy and for both aggregates, the 4-accumulator variant *)
(* returns what the 1-accumulator variant returns over the first           *)
(* floor(N/4)*4 elements only; when N mod 4 = 0 the two variants agree.    *)

Dropped(N) == (N \div 4) * 4

\* the function whose return led to the present position of bench()
LastCall ==
    IF main.pc \notin {"bench", "done"} \/ eng.pc \notin {"idle", "done"}
    THEN "none"
    ELSE IF main.run > 0 THEN BenchOrder[main.bench]
    ELSE IF main.pc = "done" THEN BenchOrder[Len(BenchOrder)]
    ELSE IF main.bench > 1 THEN BenchOrder[main.bench - 1]
    ELSE "none"

\* the value f1 returns over the first Dropped(N) elements
OneWayOverKept(f1) ==
    CASE f1 = "TotalAreaVTBL" -> TotalAreaVTBL(Dropped(main.N), vtbl_shapes)
      [] f1 = "CornerAreaVTBL" -> CornerAreaVTBL(Dropped(main.N), vtbl_shapes)
      [] f1 = "TotalAreaSwitch" ->
            TotalAreaSwitch(Dropped(main.N), flat_shapes)
      [] f1 = "CornerAreaSwitch" ->
            CornerAreaSwitch(Dropped(main.N), flat_shapes)
      [] f1 = "TotalAreaUnion" ->
            TotalAreaUnion(Dropped(main.N), flat_shapes, Zero)
      [] f1 = "CornerAreaUnion" ->
            CornerAreaUnion(Dropped(main.N), flat_shapes, Zero)

FourWayOf ==
    [TotalAreaVTBL4 |-> "TotalAreaVTBL", CornerAreaVTBL4 |-> "CornerAreaVTBL",
     TotalAreaSwitch4 |-> "TotalAreaSwitch",
     CornerAreaSwitch4 |-> "CornerAreaSwitch",
     TotalAreaUnion4 |-> "TotalAreaUnion",
     CornerAreaUnion4 |-> "CornerAreaUnion"]

\* stated where a 4-way variant has just returned: nothing it read and no
\* value it returned changes afterwards
C2_FourWayDropsTail ==
    \A f4 \in DOMAIN FourWayOf :
        /\ LastCall = f4
              => Exact(Val(f4)) = Exact(OneWayOverKept(FourWayOf[f4]))
        /\ (Returned(f4) /\ Returned(FourWayOf[f4]) /\ main.N % 4 = 0)
              => Exact(Val(f4)) = Exact(Val(FourWayOf[f4]))

\* all six 4-way variants have returned over 7 varied shapes, the last
\* three of which the 1-way variant counted and the 4-way variant did not
C2_Witness ==
    /\ main.pc = "done"
    /\ main.N = 7
    /\ main.pattern = "ramp"
    /\ Exact(Val("TotalAreaVTBL4")) # Exact(Val("TotalAreaVTBL"))
    /\ Exact(Val("CornerAreaSwitch4")) # Exact(Val("CornerAreaSwitch"))
    /\ Exact(Val("CornerAreaUnion4")) # Exact(Val("CornerAreaUnion"))
    /\ Exact(Val("TotalAreaUnion4")) = Exact(TotalAreaVTBL(4, vtbl_shapes))

----------------------------------------------------------------------------
(* The collector functions and the strategies' functions of the same       *)
(* aggregate, and the relative tolerance 1e-4 on two f32 values.           *)

CollectorPairs ==
    ({"CornerAreaCollector"}
        \X {"CornerAreaVTBL", "CornerAreaSwitch", "CornerAreaUnion"})
    \cup ({"TotalAreaCollector"}
        \X {"TotalAreaVTBL", "TotalAreaSwitch", "TotalAreaUnion"})

BothReturned(pair) == Returned(pair[1]) /\ Returned(pair[2])

BothTracked(pair) == Val(pair[1]).f32 >= 0 /\ Val(pair[2]).f32 >= 0

\* |a - b| <= 1e-4 * max(a, b), for a, b >= 0
WithinTolerance(a, b) ==
    Abs(a - b) <= (IF a > b THEN a ELSE b) \div 10000

----------------------------------------------------------------------------
(* C10: in main's run no addShape call is made on a collector once a       *)
(* reduction call has begun on it, and every reduction call is made after  *)
(* the population loop has ended.                                          *)
C10_PopulationBeforeReduction ==
    /\ [][(given'.area # given.area => ~reduced.area /\ ~reduced'.area)
          /\ (given'.corner # given.corner
                => ~reduced.corner /\ ~reduced'.corner)
          /\ (reduced'.area # reduced.area => main.pc = "bench")
          /\ (reduced'.corner # reduced.corner => main.pc = "bench")]_vars
    /\ []((reduced.area \/ reduced.corner) => main.pc # "populate")

\* both collectors were populated and then reduced
C10_Witness ==
    /\ main.pc = "done"
    /\ reduced.area /\ reduced.corner
    /\ Len(given.area) = main.N /\ Len(given.corner) = main.N
    /\ main.N > 0

----------------------------------------------------------------------------
(* The shape under test in SpecShape, and reference values by tag.         *)

TheShape == flat_shapes[1]

ValidShape == main.pc = "shape" /\ TheShape.Type \in ValidTypes

\* Square -> 4, Rectangle -> 4, Triangle -> 3, Circle -> 0
CornersOfTag == <<4, 4, 3, 0>>

\* 1 + the corner count of the shape under test
OnePlusCorners == F(1 + CornersOfTag[TheShape.Type + 1])

----------------------------------------------------------------------------
(* C3 as stated: for every valid tag and every Width, Height >= 0 the      *)
(* switch strategy, the table strategy and the class built from the same   *)
(* parameters compute the same area.                                       *)
C3_Original ==
    (ValidShape /\ Returned("GetAreaSwitch") /\ Returned("GetAreaUnion")
        /\ Returned("Area"))
        => /\ Val("GetAreaSwitch") = Val("GetAreaUnion")
           /\ Val("GetAreaUnion") = Val("Area")

(* C3 as amended: for every valid tag and every Width, Height >= 0 the     *)
(* switch strategy and the class built from the same parameters compute    *)
(* the same area; the table strategy computes that area too for Rectangle  *)
(* and Triangle, and for Square and Circle when Height = Width.            *)
C3_AreasAgree ==
    ValidShape =>
        /\ (Returned("GetAreaSwitch") /\ Returned("Area"))
              => Val("GetAreaSwitch") = Val("Area")
        /\ (Returned("GetAreaUnion")
              /\ (TheShape.Type \in {Shape_Rectangle, Shape_Triangle}
                    \/ TheShape.Height = TheShape.Width))
              => /\ Returned("GetAreaSwitch")
                      => Val("GetAreaUnion") = Val("GetAreaSwitch")
                 /\ Returned("Area") => Val("GetAreaUnion") = Val("Area")

\* a triangle of base 1 and height 2: the three paths returned area 1
C3_Witness ==
    /\ ValidShape
    /\ TheShape = shape_union(Shape_Triangle, F(1), F(2))
    /\ Returned("GetAreaSwitch") /\ Returned("GetAreaUnion")
    /\ Returned("Area")
    /\ Exact(Val("GetAreaSwitch")) = Exact(One)
    /\ Exact(Val("GetAreaUnion")) = Exact(One)
    /\ Exact(Val("Area")) = Exact(One)

----------------------------------------------------------------------------
(* C4: for every valid tag the table's folded coefficient is the area      *)
(* coefficient divided by 1 + CornerCount, GetCornerCountSwitch and the    *)
(* virtual CornerCount() return the count of the tag (4, 4, 3, 0), and the *)
(* corner contribution of the shape in each strategy is its area in that   *)
(* strategy divided by 1 + CornerCount.                                    *)
C4_CornerContribution ==
    ValidShape =>
        /\ Exact(CornerAreaCTable[TheShape.Type + 1])
              = Exact(FDiv(AreaCTable[TheShape.Type + 1], OnePlusCorners))
        /\ Returned("GetCornerCountSwitch")
              => Val("GetCornerCountSwitch") = CornersOfTag[TheShape.Type + 1]
        /\ Returned("CornerCount")
              => Val("CornerCount") = CornersOfTag[TheShape.Type + 1]
        /\ (Returned("CornerAreaVTBL") /\ Returned("Area"))
              => Exact(Val("CornerAreaVTBL"))
                    = Exact(FDiv(Val("Area"), OnePlusCorners))
        /\ (Returned("CornerAreaSwitch") /\ Returned("GetAreaSwitch"))
              => Exact(Val("CornerAreaSwitch"))
                    = Exact(FDiv(Val("GetAreaSwitch"), OnePlusCorners))
        /\ (Returned("CornerAreaUnion") /\ Returned("GetAreaUnion"))
              => Exact(Val("CornerAreaUnion"))
                    = Exact(FDiv(Val("GetAreaUnion"), OnePlusCorners))

\* a triangle of base 2 and height 2: area 2, three corners, contribution
\* 1/2 on each path
C4_Witness ==
    /\ ValidShape
    /\ TheShape = shape_union(Shape_Triangle, F(2), F(2))
    /\ \A f \in {"GetCornerCountSwitch", "CornerCount", "Area",
                 "CornerAreaVTBL", "CornerAreaSwitch", "CornerAreaUnion"} :
          Returned(f)
    /\ Val("GetCornerCountSwitch") = 3 /\ Val("CornerCount") = 3
    /\ Exact(Val("Area")) = Exact(F(2))
    /\ Exact(Val("CornerAreaVTBL")) = Exact(Half)
    /\ Exact(Val("CornerAreaSwitch")) = Exact(Half)
    /\ Exact(Val("CornerAreaUnion")) = Exact(Half)

----------------------------------------------------------------------------
(* C6: a record whose tag is none of the four contributes zero to          *)
(* TotalArea and CornerArea in the switch strategy and in the table        *)
(* strategy, and no coefficient table is read outside its entries.         *)
C6_BadTagContributesZero ==
    (main.pc = "shape" /\ TheShape.Type \notin ValidTypes) =>
        /\ \A f \in {"TotalAreaSwitch", "CornerAreaSwitch",
                     "TotalAreaUnion", "CornerAreaUnion"} :
              Returned(f) => Exact(Val(f)) = Exact(Zero)
        /\ \A f \in {"GetAreaUnion", "TotalAreaUnion", "CornerAreaUnion"} :
              Returned(f) => InTable(TheShape.Type)

----------------------------------------------------------------------------
(* C7: areas and weights of a CornerCollector have the same length in      *)
(* every state a sequence of addShape calls reaches, and each call makes   *)
(* both one longer.                                                        *)
C7_ParallelArraysSameLength ==
    /\ [](Len(optimized_collector.areas) = Len(optimized_collector.weights))
    /\ [][given'.corner # given.corner
            => /\ Len(optimized_collector'.areas)
                    = Len(optimized_collector.areas) + 1
               /\ Len(optimized_collector'.weights)
                    = Len(optimized_collector.weights) + 1]_vars

\* three calls, one of them with a circle (no corners)
C7_Witness ==
    /\ main.pc = "collect"
    /\ Len(given.corner) = 3
    /\ \E k \in 1..3 : given.corner[k].class = "circle"
    /\ Len(optimized_collector.areas) = 3
    /\ Len(optimized_collector.weights) = 3

----------------------------------------------------------------------------
(* C8: after calls with shapes s_0 .. s_(k-1), areas[i] is the area of s_i *)
(* and, in the CornerCollector, weights[i] is 1/(1 + CornerCount(s_i)), in *)
(* the order of the calls; a call changes no entry already stored and      *)
(* returns the shape it was given.                                         *)

\* 1/5 for a square or rectangle, 1/4 for a triangle, 1 for a circle
WeightOfClass(class) ==
    CASE class \in {"square", "rectangle"} -> [n |-> 1, p |-> 0, d |-> 5]
      [] class = "triangle" -> [n |-> 1, p |-> 0, d |-> 4]
      [] class = "circle" -> [n |-> 1, p |-> 0, d |-> 1]

ExactSeq(xs) == [k \in DOMAIN xs |-> Exact(xs[k])]

IsPrefix(xs, ys) ==
    Len(xs) <= Len(ys) /\ \A k \in 1..Len(xs) : xs[k] = ys[k]

C8_AppendOnlyInOrder ==
    /\ [](/\ Len(area_collector.areas) = Len(given.area)
          /\ \A k \in 1..Len(given.area) :
                area_collector.areas[k] = Area(given.area[k])
          /\ Len(optimized_collector.areas) = Len(given.corner)
          /\ Len(optimized_collector.weights) = Len(given.corner)
          /\ \A k \in 1..Len(given.corner) :
                /\ optimized_collector.areas[k] = Area(given.corner[k])
                /\ Exact(optimized_collector.weights[k])
                      = WeightOfClass(given.corner[k].class))
    /\ [][/\ IsPrefix(area_collector.areas, area_collector'.areas)
          /\ IsPrefix(optimized_collector.areas, optimized_collector'.areas)
          /\ IsPrefix(optimized_collector.weights,
                      optimized_collector'.weights)
          /\ (given'.area # given.area
                => ret' = <<given'.area[Len(given'.area)]>>)
          /\ (given'.corner # given.corner
                => ret' = <<given'.corner[Len(given'.corner)]>>)]_vars

\* a square, a triangle and a circle were passed, in that order, to each
\* collector
C8_Witness ==
    /\ main.pc = "collect"
    /\ given.area = <<square(F(2)), triangle(F(3), F(4)), circle(F(1))>>
    /\ given.corner = given.area
    /\ ExactSeq(area_collector.areas) = ExactSeq(<<F(4), F(6), Pi32>>)
    /\ ExactSeq(optimized_collector.areas) = ExactSeq(<<F(4), F(6), Pi32>>)
    /\ ExactSeq(optimized_collector.weights)
          = <<WeightOfClass("square"), WeightOfClass("triangle"),
              WeightOfClass("circle")>>
    /\ ret = <<circle(F(1))>>

----------------------------------------------------------------------------
(* C11: no step of a reduction call changes the collector's areas or       *)
(* weights, and a repeated call on the same collector returns what the     *)
(* call before it returned.                                                *)
C11_ReductionIsPure ==
    [][/\ eng' # eng
            => /\ area_collector' = area_collector
               /\ optimized_collector' = optimized_collector
       /\ \A f \in {"TotalAreaCollector", "CornerAreaCollector"} :
            Returned(f) => out'[f] = out[f]]_vars

\* both reductions were called COUNT times over 137 shapes of main's own
\* pattern
C11_Witness ==
    /\ main.pc = "done"
    /\ main.N = 137
    /\ main.pattern = "bench"
    /\ COUNT > 1
    /\ Returned("TotalAreaCollector") /\ Returned("CornerAreaCollector")
    /\ Len(area_collector.areas) = 137
    /\ Len(optimized_collector.weights) = 137
    /\ Exact(Val("TotalAreaCollector")) # Exact(Zero)

----------------------------------------------------------------------------
(* The steps of the engine's combine, and a lane-wise sum of two           *)
(* accumulators.                                                           *)

Combines8 == eng.pc = "bulk" /\ eng'.pc = "combine4"
Combines4 == eng.pc = "combine4" /\ eng'.pc = "combine2"
Combines2 == eng.pc = "combine2" /\ eng'.pc = "remainder"

LaneSum(a, b) == [l \in 1..8 |-> FAdd(a[l], b[l])]

\* no 8-element chunk has been added yet
BeforeRemainder == eng.iters.rem = 0 /\ eng.iters.tail = 0

(* C12 as stated: the combine takes three steps 8->4->2->1 after the bulk  *)
(* loop and before any 8-element chunk is added, and each step sums        *)
(* adjacent pairs of the live accumulators: first sum0+sum1, sum2+sum3,    *)
(* sum4+sum5, sum6+sum7, then the two pairs of the four, then the pair of  *)
(* the two.                                                                *)
C12_Original ==
    [][/\ Combines8 =>
            /\ BeforeRemainder
            /\ {eng'.sum[k] : k \in 1..4}
                  = {LaneSum(eng.sum[2 * k - 1], eng.sum[2 * k]) : k \in 1..4}
       /\ Combines4 =>
            /\ BeforeRemainder
            /\ {eng'.sum[1], eng'.sum[3]}
                  = {LaneSum(eng.sum[1], eng.sum[2]),
                     LaneSum(eng.sum[3], eng.sum[4])}
       /\ Combines2 =>
            /\ BeforeRemainder
            /\ eng'.sum[1] = LaneSum(eng.sum[1], eng.sum[3])
       /\ eng'.iters.rem > eng.iters.rem => eng.pc = "remainder"]_vars

(* C12 as amended: the combine takes three steps 8->4->2->1 after the bulk *)
(* loop and before any 8-element chunk is added: first sum0+sum4,          *)
(* sum1+sum5, sum2+sum6, sum3+sum7, then sum0+sum1 and sum2+sum3, then     *)
(* sum0+sum2, in both modes.                                               *)
C12_CombineTree ==
    [][/\ Combines8 =>
            /\ BeforeRemainder /\ ~(eng.i + 63 < eng.size)
            /\ \A k \in 1..4 :
                  eng'.sum[k] = LaneSum(eng.sum[k], eng.sum[k + 4])
       /\ Combines4 =>
            /\ BeforeRemainder
            /\ eng'.sum[1] = LaneSum(eng.sum[1], eng.sum[2])
            /\ eng'.sum[3] = LaneSum(eng.sum[3], eng.sum[4])
       /\ Combines2 =>
            /\ BeforeRemainder
            /\ eng'.sum[1] = LaneSum(eng.sum[1], eng.sum[3])
       /\ eng'.iters.rem > eng.iters.rem => eng.pc = "remainder"
       /\ eng.pc \in {"bulk", "combine4", "combine2"}
            => eng'.pc \in {"bulk", "combine4", "combine2", "remainder"}]_vars

\* CornerAreaCollector has combined the accumulators of two bulk passes
\* over varied shapes and is about to add an 8-element chunk
C12_Witness ==
    /\ eng.fn = "CornerAreaCollector"
    /\ eng.pc = "remainder"
    /\ main.pattern = "ramp"
    /\ eng.size = 137
    /\ eng.iters = [bulk |-> 2, rem |-> 0, tail |-> 0]
    /\ \A l \in 1..8 : Exact(eng.sum[1][l]) # Exact(Zero)

----------------------------------------------------------------------------
(* C13: in every state of a reduction call, every element the engine has   *)
(* loaded, by an 8-wide vector load or by a scalar load of the tail, lies  *)
(* at an index in [0, N) of the areas array and, in CornerArea mode, of    *)
(* the weights array, N being the length of the arrays.                    *)
C13_LoadsInBounds ==
    eng.fn # "none" =>
        /\ eng.size = Len(EngAreas(eng))
        /\ eng.i <= eng.size
        /\ \A k \in DOMAIN eng.loads :
              eng.loads[k] >= 0 /\ eng.loads[k] < Len(EngAreas(eng))
        /\ \A k \in DOMAIN eng.wloads :
              eng.wloads[k] >= 0 /\ eng.wloads[k] < Len(EngWeights(eng))
        /\ eng.fn = "CornerAreaCollector"
              => Len(eng.wloads) = Len(eng.loads)

\* CornerAreaCollector over 137 shapes: the last vector load read 128..135
\* and the tail read 136 of both arrays
C13_Witness ==
    /\ eng.fn = "CornerAreaCollector"
    /\ eng.pc = "done"
    /\ main.pattern = "bench"
    /\ eng.size = 137
    /\ Len(eng.loads) = 137 /\ Len(eng.wloads) = 137
    /\ eng.loads[136] = 135 /\ eng.loads[137] = 136
    /\ eng.wloads[136] = 135 /\ eng.wloads[137] = 136

----------------------------------------------------------------------------
(* The locals of a 4-way function when its loop has ended: the counter,    *)
(* and how far Shapes was advanced (four elements a pass).                 *)

FourWayRun(f4) ==
    CASE f4 = "TotalAreaVTBL4" -> TotalAreaVTBL4_run(main.N, vtbl_shapes)
      [] f4 = "CornerAreaVTBL4" -> CornerAreaVTBL4_run(main.N, vtbl_shapes)
      [] f4 = "TotalAreaSwitch4" -> TotalAreaSwitch4_run(main.N, flat_shapes)
      [] f4 = "CornerAreaSwitch4" ->
            CornerAreaSwitch4_run(main.N, flat_shapes)
      [] f4 = "TotalAreaUnion4" ->
            TotalAreaUnion4_run(main.N, flat_shapes, Zero)
      [] f4 = "CornerAreaUnion4" ->
            CornerAreaUnion4_run(main.N, flat_shapes, Zero)

FourWayCounter(f4, run) ==
    IF f4 \in {"TotalAreaVTBL4", "CornerAreaVTBL4"} THEN run.Count
    ELSE run.ShapeCount

\* 2^32 - 1
U32Max == [hi |-> 65535, lo |-> 65535]

(* C14: each 4-way loop over N elements ends after floor(N/4) passes,      *)
(* having read only elements below floor(N/4)*4, its counter wrapped to    *)
(* 2^32 - 1 by the failing test; for N in 0..3 it makes no pass and the    *)
(* function returns 0.                                                     *)
C14_FourWayLoopTerminates ==
    \A f4 \in DOMAIN FourWayOf :
        LastCall = f4 =>
            LET run == FourWayRun(f4)
            IN  /\ run.exited
                /\ run.base = 4 * (main.N \div 4)
                /\ run.base <= Len(run.Shapes)
                /\ FourWayCounter(f4, run) = U32Max
                /\ main.N < 4
                      => run.base = 0 /\ Exact(Val(f4)) = Exact(Zero)

\* TotalAreaVTBL4 has returned over 137 shapes after 34 passes
C14_Witness ==
    /\ LastCall = "TotalAreaVTBL4"
    /\ main.N = 137
    /\ main.pattern = "ramp"
    /\ TotalAreaVTBL4_run(main.N, vtbl_shapes).base = 136
    /\ TotalAreaVTBL4_run(main.N, vtbl_shapes).Count = U32Max
    /\ Exact(Val("TotalAreaVTBL4")) # Exact(Zero)

====
